---------------------------- MODULE Spec2Model ----------------------------
(***************************************************************************)
(* A model of src/app/main.py: the WebSocket /ws session handler, the      *)
(* one-shot POST /transcribe handler, the recognition adapter and the      *)
(* speaker assignment, alone and as concurrent tasks of one event loop;    *)
(* and of the TCP audio relay of src/audio/sender.py and src/receiver.py.  *)
(*                                                                         *)
(* Text frames are sequences of lexical tokens, so that the substring      *)
(* tests of the handler and json.loads are computed on the frame's text    *)
(* and can disagree.  Audio is a sequence of bytes.  Times are whole       *)
(* seconds.                                                                *)
(***************************************************************************)
EXTENDS Integers, Sequences, FiniteSets, TLC

\* ------------------------------------------------------------ bounds ----

\* CHUNK of the relay, in frames (1024 in sender.py and receiver.py).
CHUNK == 2
\* Most chunks the sender captures on a connection.
MaxChunks == 2
\* Most samples of a WAV passed to run_whisper on its own.
MaxSamples == 4
\* Largest session buffer, in bytes, that the model follows.
MaxBuf == 3
\* Longest binary frame, in bytes.
MaxFrameLen == 2
\* Largest time stamp, in seconds, of a segment passed to assign_speakers.
MaxTime == 2
\* Longest list of recognition segments passed to assign_speakers.
MaxStt == 2
\* Longest list of diarization segments passed to assign_speakers.
MaxSpk == 2

\* The byte values audio frames are made of.
Bytes == {1, 2}

\* ------------------------------------------------- text frames: tokens --

Tok(t, v, n) == [t |-> t, v |-> v, n |-> n]
LB == Tok("punct", "{", 0)
RB == Tok("punct", "}", 0)
COLON == Tok("punct", ":", 0)
COMMA == Tok("punct", ",", 0)
SP == Tok("ws", " ", 0)
\* a JSON string literal "v", quotes included
S(v) == Tok("str", v, 0)
\* an integer literal
N(n) == Tok("int", "", n)
\* a decimal literal, in tenths: F(25) is 2.5
F(n) == Tok("float", "", n)
\* a bare word
W(v) == Tok("word", v, 0)

\* ---------------------------------------------------------- json.loads --

JV(k, s, n, m) == [k |-> k, s |-> s, n |-> n, m |-> m]
JErr == JV("err", "", 0, <<>>)
JNone == JV("null", "", 0, <<>>)
PFail == [ok |-> FALSE, val |-> JErr, nxt |-> 0]
POk(v, i) == [ok |-> TRUE, val |-> v, nxt |-> i]

RECURSIVE SkipWs(_, _)
SkipWs(toks, i) ==
    IF i <= Len(toks) /\ toks[i].t = "ws" THEN SkipWs(toks, i + 1) ELSE i

RECURSIVE ParseValue(_, _)
RECURSIVE ParseObj(_, _, _, _)
ParseValue(toks, i) ==
    IF i > Len(toks) THEN PFail
    ELSE LET tk == toks[i] IN
         CASE tk.t = "str" -> POk(JV("str", tk.v, 0, <<>>), i + 1)
           [] tk.t = "int" -> POk(JV("int", "", tk.n, <<>>), i + 1)
           [] tk.t = "float" -> POk(JV("float", "", tk.n, <<>>), i + 1)
           [] tk.t = "word" /\ tk.v = "true" -> POk(JV("bool", "", 1, <<>>), i + 1)
           [] tk.t = "word" /\ tk.v = "false" -> POk(JV("bool", "", 0, <<>>), i + 1)
           [] tk.t = "word" /\ tk.v = "null" -> POk(JNone, i + 1)
           [] tk = LB -> ParseObj(toks, SkipWs(toks, i + 1), <<>>, "first")
           [] OTHER -> PFail

\* st: "first" right after the brace, "pair" after a comma, "more" after a
\* member; i is at a token that is not white space.
ParseObj(toks, i, acc, st) ==
    IF i > Len(toks) THEN PFail
    ELSE LET tk == toks[i] IN
         IF tk = RB /\ st \in {"first", "more"}
         THEN POk(JV("obj", "", 0, acc), i + 1)
         ELSE IF st = "more"
         THEN IF tk = COMMA
              THEN ParseObj(toks, SkipWs(toks, i + 1), acc, "pair")
              ELSE PFail
         ELSE IF tk.t # "str" THEN PFail
         ELSE LET j == SkipWs(toks, i + 1) IN
              IF j > Len(toks) \/ toks[j] # COLON THEN PFail
              ELSE LET r == ParseValue(toks, SkipWs(toks, j + 1)) IN
                   IF ~r.ok THEN PFail
                   ELSE ParseObj(toks, SkipWs(toks, r.nxt),
                                 Append(acc, [key |-> tk.v, val |-> r.val]),
                                 "more")

\* json.loads(text): the value, or JErr when it raises.
json_loads(toks) ==
    LET r == ParseValue(toks, SkipWs(toks, 1)) IN
    IF r.ok /\ SkipWs(toks, r.nxt) = Len(toks) + 1 THEN r.val ELSE JErr

\* dict.get(key, default): the last member of that name wins.
DictGet(obj, key, default) ==
    LET idx == {i \in 1..Len(obj.m) : obj.m[i].key = key} IN
    IF idx = {} THEN default
    ELSE obj.m[CHOOSE i \in idx : \A j \in idx : j <= i].val

\* The strings int() reads as a decimal number.
DecimalStrings == {"48000", "0"}
DecimalValue(s) == IF s = "48000" THEN 48000 ELSE 0

\* int(x): [ok, n], ok FALSE when it raises (TypeError, ValueError).
PyInt(v) ==
    CASE v.k = "int" -> [ok |-> TRUE, n |-> v.n]
      [] v.k = "bool" -> [ok |-> TRUE, n |-> v.n]
      [] v.k = "float" ->
            [ok |-> TRUE, n |-> IF v.n >= 0 THEN v.n \div 10 ELSE -((-v.n) \div 10)]
      [] v.k = "str" /\ v.s \in DecimalStrings ->
            [ok |-> TRUE, n |-> DecimalValue(v.s)]
      [] OTHER -> [ok |-> FALSE, n |-> 0]

\* ------------------------------------------------ the frames a client sends

T_end == <<W("end")>>
T_json_end == <<LB, S("type"), COLON, S("end"), RB>>
T_json_end_sp == <<LB, S("type"), COLON, SP, S("end"), RB>>
T_json_end_rate ==
    <<LB, S("type"), COLON, S("end"), COMMA, S("sampleRate"), COLON, N(8000), RB>>
T_json_end_id ==
    <<LB, S("id"), COLON, N(1), COMMA, S("type"), COLON, S("end"), RB>>
T_nested_end ==
    <<LB, S("type"), COLON, S("msg"), COMMA, S("inner"), COLON,
      LB, S("type"), COLON, S("end"), RB, RB>>
T_garbage_end == <<W("x"), S("type"), COLON, S("end")>>
T_cfg(v) ==
    <<LB, S("type"), COLON, S("config"), COMMA, S("sampleRate"), COLON, v, RB>>
T_cfg_sp ==
    <<LB, S("type"), COLON, SP, S("config"), COMMA, SP,
      S("sampleRate"), COLON, SP, N(44100), RB>>
T_other_rate ==
    <<LB, S("type"), COLON, S("other"), COMMA, S("sampleRate"), COLON, N(8000), RB>>
T_nonjson_rate == <<W("sampleRate"), W("="), N(8000)>>
T_trunc_rate == <<LB, S("sampleRate"), COLON, N(8000)>>
T_str_rate == <<S("sampleRate")>>
T_hello == <<W("hello")>>
T_ping == <<LB, S("type"), COLON, S("ping"), RB>>
T_cfg_norate == <<LB, S("type"), COLON, S("config"), RB>>
T_empty == <<>>

TextFrames ==
    { T_end, T_json_end, T_json_end_sp, T_json_end_rate, T_json_end_id,
      T_nested_end, T_garbage_end,
      T_cfg(N(8000)), T_cfg(N(0)), T_cfg(N(-8000)), T_cfg(S("48000")),
      T_cfg(F(25)), T_cfg(W("null")), T_cfg(S("abc")), T_cfg_sp,
      T_other_rate, T_nonjson_rate, T_trunc_rate, T_str_rate,
      T_hello, T_ping, T_cfg_norate, T_empty }

BinaryFrames == UNION { [1..n -> Bytes] : n \in 0..MaxFrameLen }

\* The message ws.receive() returns: one of the keys 'bytes' and 'text'.
BytesMsg(b) == [kind |-> "bytes", bytes |-> b, text |-> <<>>]
TextMsg(t) == [kind |-> "text", bytes |-> <<>>, text |-> t]
NoMsg == [kind |-> "none", bytes |-> <<>>, text |-> <<>>]
Messages == {BytesMsg(b) : b \in BinaryFrames} \cup {TextMsg(t) : t \in TextFrames}

\* ------------------------------------------------------ the /ws handler --

TARGET_SAMPLE_RATE == 16000
DefaultRate == 16000

\* 'sampleRate' in text
HasSampleRate(text) == \E i \in 1..Len(text) : text[i].v = "sampleRate"

\* '"type":"end"' in text
ContainsTypeEnd(text) ==
    \E i \in 1..(Len(text) - 2) :
        text[i] = S("type") /\ text[i + 1] = COLON /\ text[i + 2] = S("end")

\* text == 'end' or text == '{"type":"end"}' or '"type":"end"' in text
IsEndText(text) == text = T_end \/ text = T_json_end \/ ContainsTypeEnd(text)

\* ConfigRate with "if sr >= 0" for "if sr > 0".
M_ConfigRate_AcceptsZero(text, sr) ==
    LET cfg == json_loads(text) IN
    IF cfg.k = "obj" /\ DictGet(cfg, "type", JNone) = JV("str", "config", 0, <<>>)
    THEN LET v == PyInt(DictGet(cfg, "sampleRate", JV("int", "", sr, <<>>))) IN
         IF v.ok /\ v.n >= 0 THEN v.n ELSE sr
    ELSE sr

\* ConfigRate falling back to the default rate when the text is no valid
\* config.
M_ConfigRate_ResetOnError(text, sr) ==
    LET cfg == json_loads(text) IN
    IF cfg.k = "obj" /\ DictGet(cfg, "type", JNone) = JV("str", "config", 0, <<>>)
    THEN LET v == PyInt(DictGet(cfg, "sampleRate", JV("int", "", sr, <<>>))) IN
         IF v.ok /\ v.n > 0 THEN v.n ELSE 16000
    ELSE 16000

\* The try block of the 'sampleRate' branch: the session rate after it.
ConfigRate(text, sr) ==
    LET cfg == json_loads(text) IN
    IF cfg.k = "obj" /\ DictGet(cfg, "type", JNone) = JV("str", "config", 0, <<>>)
    THEN LET v == PyInt(DictGet(cfg, "sampleRate", JV("int", "", sr, <<>>))) IN
         IF v.ok /\ v.n > 0 THEN v.n ELSE sr
    ELSE sr

\* The branch of the if/elif chain a received message takes.
Branch(msg) ==
    IF msg.kind = "bytes" /\ msg.bytes # <<>> THEN "bytes"
    ELSE IF msg.kind = "text" /\ msg.text # <<>>
    THEN IF HasSampleRate(msg.text) THEN "config"
         ELSE IF IsEndText(msg.text) THEN "end"
         ELSE "ignore"
    ELSE "none"

\* BufferAfter putting the new frame in front.
M_BufferAfter_Prepend(buf, msg) ==
    IF msg.kind = "bytes" /\ msg.bytes # <<>> THEN msg.bytes \o buf ELSE buf

\* buffer.extend(msg['bytes'])
BufferAfter(buf, msg) == IF Branch(msg) = "bytes" THEN buf \o msg.bytes ELSE buf

RateAfter(sr, msg) == IF Branch(msg) = "config" THEN ConfigRate(msg.text, sr) ELSE sr

\* A WAV file: the header fields the handlers read, and the data chunk.
Wav(tag, ch, width, rate, data) ==
    [riff |-> TRUE, tag |-> tag, nchannels |-> ch, sampwidth |-> width,
     framerate |-> rate, data |-> data]
NoWav == [riff |-> FALSE, tag |-> 0, nchannels |-> 0, sampwidth |-> 0,
          framerate |-> 0, data |-> <<>>]

pcm16_to_wav_bytes(pcm, sample_rate) == Wav(1, 1, 2, sample_rate, pcm)

\* ------------------------------------------------------- the pipeline --

Min(a, b) == IF a < b THEN a ELSE b
Max(a, b) == IF a > b THEN a ELSE b

\* np.frombuffer(raw, dtype=np.int16): little-endian signed 16-bit samples.
Int16(lo, hi) ==
    LET u == lo + 256 * hi IN IF u >= 32768 THEN u - 65536 ELSE u
FromBuffer(raw) == [i \in 1..(Len(raw) \div 2) |-> Int16(raw[2 * i - 1], raw[2 * i])]

\* wave.open(..., 'rb'): "error" (wave.Error, EOFError) for a file that is no
\* RIFF/WAVE file or whose format tag is not PCM.
WaveOpens(wav) == wav.riff /\ wav.tag = 1 /\ wav.nchannels > 0 /\ wav.sampwidth > 0

\* readframes(getnframes()): whole frames only.
ReadFrames(wav) ==
    LET framesize == wav.nchannels * wav.sampwidth
        nframes == Len(wav.data) \div framesize
    IN  SubSeq(wav.data, 1, nframes * framesize)

\* wav_bytes_to_float_np: exc is "none", "http400" (the HTTPException it
\* raises) or "error" (what wave.open raises); audio holds the samples as
\* the numerators of the floats pcm16 / 32768.
wav_bytes_to_float_np(wav) ==
    IF ~WaveOpens(wav) THEN [exc |-> "error", audio |-> <<>>, sr |-> 0]
    ELSE IF wav.nchannels # 1 \/ wav.sampwidth # 2
    THEN [exc |-> "http400", audio |-> <<>>, sr |-> 0]
    ELSE [exc |-> "none", audio |-> FromBuffer(ReadFrames(wav)), sr |-> wav.framerate]

\* int(duration * TARGET_SAMPLE_RATE), duration = n / sr: the product cut
\* toward zero.  (The code computes it in double precision; for the lengths
\* followed here the integer part is that of the exact quotient.)
NewLength(n, sr) == (n * TARGET_SAMPLE_RATE) \div sr

\* What model.transcribe yields: it raises, or emits raw segments.
RawSeg(a, b, t) == [start |-> a, end |-> b, text |-> t]
EngineSegLists ==
    { <<>>,
      <<RawSeg(0, 1, " hi")>>,
      <<RawSeg(0, 2, " hi"), RawSeg(2, 3, " ")>>,
      <<RawSeg(1, 1, " "), RawSeg(1, 3, " yo")>> }
EngineOutcomes == [raises : BOOLEAN, segs : EngineSegLists]

\* (seg.text or "").strip()
Strip(t) == CASE t = " hi" -> "hi" [] t = " yo" -> "yo" [] t = " " -> "" [] OTHER -> t

\* The loop over the engine's segments: those with text left after strip().
RECURSIVE CollectSegments(_)
CollectSegments(segs) ==
    IF segs = <<>> THEN <<>>
    ELSE LET seg == Head(segs)
             text == Strip(seg.text)
         IN  IF text = "" THEN CollectSegments(Tail(segs))
             ELSE <<[start |-> seg.start, end |-> seg.end, text |-> text]>>
                  \o CollectSegments(Tail(segs))

\* run_whisper(wav_bytes), given whether get_whisper() returns a model and
\* what the engine does if called.  exc as in wav_bytes_to_float_np;
\* called: whether model.transcribe was invoked; interp: whether np.interp
\* was; fed: how many samples the engine was given.
run_whisper(wav, model_ready, engine) ==
    LET Ret(exc, out, called, interp, fed) ==
            [exc |-> exc, out |-> out, called |-> called, interp |-> interp,
             fed |-> fed]
    IN
    IF ~model_ready THEN Ret("error", <<>>, FALSE, FALSE, 0)
    ELSE LET d == wav_bytes_to_float_np(wav)
             resample == d.sr # TARGET_SAMPLE_RATE
             fed == IF resample THEN NewLength(Len(d.audio), d.sr) ELSE Len(d.audio)
         IN
         IF d.exc # "none" THEN Ret(d.exc, <<>>, FALSE, FALSE, 0)
         ELSE IF Len(d.audio) = 0 THEN Ret("none", <<>>, FALSE, FALSE, 0)
         ELSE IF resample /\ NewLength(Len(d.audio), d.sr) <= 0
         THEN Ret("none", <<>>, FALSE, FALSE, 0)
         ELSE IF engine.raises THEN Ret("error", <<>>, TRUE, resample, fed)
         ELSE Ret("none", CollectSegments(engine.segs), TRUE, resample, fed)

\* run_diarization: the constant single-speaker stub.
run_diarization(wav) == << [start |-> 0, end |-> 5, speaker |-> "SPEAKER_00"] >>

overlap(a, b) ==
    LET l == Max(a[1], b[1])
        r == Min(a[2], b[2])
    IN  Max(0, r - l)

\* Better with >= for >.
M_Better_OrEqual(ov, best_ov) == ov >= best_ov

\* if ov > best_ov
Better(ov, best_ov) == ov > best_ov

\* The inner loop of assign_speakers from diarization segment i on: the index
\* of best, 0 for None.
RECURSIVE BestLoop(_, _, _, _, _)
BestLoop(s, spk, i, best, best_ov) ==
    IF i > Len(spk) THEN best
    ELSE LET ov == overlap(<<s.start, s.end>>, <<spk[i].start, spk[i].end>>) IN
         IF Better(ov, best_ov) THEN BestLoop(s, spk, i + 1, i, ov)
         ELSE BestLoop(s, spk, i + 1, best, best_ov)

Labeled(s, speaker) ==
    [start |-> s.start, end |-> s.end, text |-> s.text, speaker |-> speaker]

assign_speakers(stt, spk) ==
    IF spk = <<>>
    THEN [i \in 1..Len(stt) |-> Labeled(stt[i], "SPEAKER_00")]
    ELSE [i \in 1..Len(stt) |->
            LET best == BestLoop(stt[i], spk, 1, 0, 0) IN
            Labeled(stt[i], IF best # 0 THEN spk[best].speaker ELSE "SPEAKER_00")]

\* ---------------------------------------------------------- the state --

VARIABLES
    \* the /ws session task
    pc,            \* where the handler is: "receive" (line 229), "finalizing"
                   \* (lines 245-248), "send_final" (249), "send_error" (258),
                   \* "close" (263), "closed"
    buffer,        \* the session's bytearray
    current_sr,    \* the session's declared sample rate
    wav_bytes,     \* what pcm16_to_wav_bytes returned at line 245, or NoWav
    final,         \* the labeled segments of line 248
    client,        \* the peer: "connected" or "gone"
    client_state,  \* the connection state ws.receive() keeps
    sent,          \* the outbound messages the peer received, in order
    attempts,      \* the types of the messages passed to ws.send_text
    whisper_model, \* the global _whisper_model: "None" or "loaded"
    \* observers of the session, read by the properties only
    audio_in,      \* the payloads of the binary frames received, concatenated
    last_obs,      \* what the message the last receive returned was
    end_seen,      \* an end-of-stream signal, as the protocol defines it, arrived
    rate_claimed,  \* the rate of the last config with a positive integer rate
    rate_amended,  \* the rate of the last config whose rate int() makes positive
    disc_at,       \* the session state in which the peer went away
    runs,          \* how often the pipeline ran
    failed,        \* whether recognition raised during finalization
    \* the POST /transcribe request
    http_pc,       \* "idle", "received", "responded"
    content,       \* the uploaded file
    http_env,      \* what the model loader and the engine did for the request
    response,      \* the response: status, segments, detail
    responses,     \* how many responses the request produced
    \* a call of assign_speakers
    as_pc,         \* "idle" or "done"
    as_stt,        \* the caller's recognition list, which the call writes to
    as_spk,        \* the caller's diarization list
    as_out,        \* the list the call returned
    as_in,         \* observer: the recognition list as it was passed in
    \* the tasks of one event loop: two /ws sessions and a /transcribe request
    l_pc,          \* per task, where it is (as pc and http_pc)
    l_buffer,      \* per session, its bytearray
    l_sr,          \* per session, its declared rate
    l_ready,       \* per task, whether its get_whisper() returned a model
    holder,        \* the task whose synchronous call occupies the loop's
                   \* thread, or "none" while the loop waits for events
    constructions, \* observer: how often WhisperModel(...) was called
    built,         \* observer: how often it returned a model
    \* a call of run_whisper
    rs_pc,         \* "idle" or "done"
    rs_n,          \* the number of samples of the WAV
    rs_sr,         \* its declared rate
    rs_ready,      \* whether get_whisper() returned a model
    rs_res,        \* what run_whisper did
    \* the TCP audio relay: sender.py and receiver.py
    s_pc,          \* the sender: "start", "accept", "send_rate", "stream",
                   \* "close", "down"
    s_rate,        \* RATE of the sender, the capture device's rate
    wire,          \* the bytes sent and not yet received
    r_pc,          \* the receiver: "connect", "loop", "finished"
    files,         \* the samples written to the WAV files, the last one open
    captured,      \* observer: the bytes of the chunks captured and sent
    header_first   \* observer: the rate went out before any chunk

ws_vars == <<pc, buffer, current_sr, wav_bytes, final, client, client_state, sent,
             attempts, audio_in, last_obs, end_seen, rate_claimed, rate_amended,
             disc_at, runs, failed>>
http_vars == <<http_pc, content, http_env, response, responses>>
as_vars == <<as_pc, as_stt, as_spk, as_out, as_in>>
loop_vars == <<l_pc, l_buffer, l_sr, l_ready, holder, constructions, built>>
rs_vars == <<rs_pc, rs_n, rs_sr, rs_ready, rs_res>>
relay_vars == <<s_pc, s_rate, wire, r_pc, files, captured, header_first>>
vars == <<ws_vars, whisper_model, http_vars, as_vars, loop_vars, rs_vars, relay_vars>>

\* An outbound text frame: json.dumps of {"type": ..., "segments" / "detail"}.
FinalMsg(segs) == [type |-> "final", segments |-> segs, detail |-> ""]
ErrorMsg(detail) == [type |-> "error", segments |-> <<>>, detail |-> detail]

\* get_whisper without the test of line 64: every call constructs.
M_get_whisper_NoGuard(model, load_ok) ==
    IF load_ok THEN [ready |-> TRUE, model |-> "loaded", constructs |-> TRUE]
    ELSE [ready |-> FALSE, model |-> model, constructs |-> TRUE]

\* get_whisper(): with the model loaded it is returned; otherwise
\* WhisperModel(...) is called (constructs), which returns a model that is
\* stored (load_ok) or raises and leaves the global None.
get_whisper(model, load_ok) ==
    IF model = "loaded" THEN [ready |-> TRUE, model |-> "loaded", constructs |-> FALSE]
    ELSE IF load_ok THEN [ready |-> TRUE, model |-> "loaded", constructs |-> TRUE]
    ELSE [ready |-> FALSE, model |-> "None", constructs |-> TRUE]

\* ------------------------------------------- observers (protocol terms) --

\* What a received message is in the protocol's terms.  end: an
\* end-of-stream signal, the token end or a JSON payload whose type field is
\* "end".  config: a JSON payload whose type field is "config"; value: its
\* sampleRate.  badrate: a text that mentions sampleRate and is not a JSON
\* config payload with a rate int() converts.
Observed(msg) ==
    LET j == json_loads(msg.text)
        type == IF j.k = "obj" THEN DictGet(j, "type", JNone) ELSE JNone
        config == msg.kind = "text" /\ type = JV("str", "config", 0, <<>>)
        value == IF config THEN DictGet(j, "sampleRate", JNone) ELSE JNone
    IN  [kind |-> msg.kind,
         end |-> msg.kind = "text"
                 /\ (msg.text = T_end \/ type = JV("str", "end", 0, <<>>)),
         config |-> config,
         value |-> value,
         badrate |-> msg.kind = "text" /\ HasSampleRate(msg.text)
                     /\ ~(config /\ PyInt(value).ok)]

\* The declared rate after a message, counting the configs that carry a
\* positive integer sampleRate.
ClaimedRate(prev, obs) ==
    IF obs.config /\ obs.value.k = "int" /\ obs.value.n > 0 THEN obs.value.n ELSE prev

\* The declared rate after a message, counting the configs whose sampleRate
\* int() converts to a positive integer.
AmendedRate(prev, obs) ==
    IF obs.config /\ PyInt(obs.value).ok /\ PyInt(obs.value).n > 0
    THEN PyInt(obs.value).n ELSE prev

\* ------------------------------------------------- the /ws session task --

WsInit ==
    /\ pc = "receive"
    /\ buffer = <<>>
    /\ current_sr = DefaultRate
    /\ wav_bytes = NoWav
    /\ final = <<>>
    /\ client = "connected"
    /\ client_state = "CONNECTED"
    /\ sent = <<>>
    /\ attempts = <<>>
    /\ audio_in = <<>>
    /\ last_obs = Observed(NoMsg)
    /\ end_seen = FALSE
    /\ rate_claimed = DefaultRate
    /\ rate_amended = DefaultRate
    /\ disc_at = "none"
    /\ runs = 0
    /\ failed = FALSE

\* One iteration of the receive loop (lines 229-253) on a data message.
Receive(msg) ==
    /\ pc = "receive"
    /\ client = "connected"
    /\ client_state = "CONNECTED"
    /\ Len(buffer) + Len(msg.bytes) <= MaxBuf
    /\ buffer' = BufferAfter(buffer, msg)
    /\ current_sr' = RateAfter(current_sr, msg)
    /\ IF Branch(msg) = "end"
       THEN /\ wav_bytes' = pcm16_to_wav_bytes(buffer, current_sr)
            /\ pc' = "finalizing"
       ELSE UNCHANGED <<wav_bytes, pc>>
    /\ audio_in' = IF msg.kind = "bytes" THEN audio_in \o msg.bytes ELSE audio_in
    /\ LET obs == Observed(msg) IN
       /\ last_obs' = obs
       /\ end_seen' = (end_seen \/ obs.end)
       /\ rate_claimed' = ClaimedRate(rate_claimed, obs)
       /\ rate_amended' = AmendedRate(rate_amended, obs)
    /\ UNCHANGED <<final, client, client_state, sent, attempts, disc_at, runs,
                   failed, whisper_model>>
    /\ UNCHANGED <<http_vars, as_vars, loop_vars, rs_vars, relay_vars>>

\* The peer goes away: it closes or the connection drops.
Disconnect ==
    /\ client = "connected"
    /\ pc # "closed"
    /\ client' = "gone"
    /\ disc_at' = CASE pc = "receive" -> "STREAMING"
                    [] pc \in {"finalizing", "send_final", "send_error"} -> "FINALIZING"
                    [] OTHER -> "LATE"
    /\ UNCHANGED <<pc, buffer, current_sr, wav_bytes, final, client_state, sent,
                   attempts, audio_in, last_obs, end_seen, rate_claimed,
                   rate_amended, runs, failed, whisper_model>>
    /\ UNCHANGED <<http_vars, as_vars, loop_vars, rs_vars, relay_vars>>

\* ws.receive() returns the websocket.disconnect message: it holds neither
\* 'bytes' nor 'text', no branch is taken and the loop goes on.
ReceiveDisconnect ==
    /\ pc = "receive"
    /\ client = "gone"
    /\ client_state = "CONNECTED"
    /\ client_state' = "DISCONNECTED"
    /\ UNCHANGED <<pc, buffer, current_sr, wav_bytes, final, client, sent,
                   attempts, audio_in, last_obs, end_seen, rate_claimed,
                   rate_amended, disc_at, runs, failed, whisper_model>>
    /\ UNCHANGED <<http_vars, as_vars, loop_vars, rs_vars, relay_vars>>

\* ws.receive() after the disconnect message raises RuntimeError, which the
\* handler catches at line 256.
ReceiveRaises ==
    /\ pc = "receive"
    /\ client_state = "DISCONNECTED"
    /\ pc' = "send_error"
    /\ UNCHANGED <<buffer, current_sr, wav_bytes, final, client, client_state,
                   sent, attempts, audio_in, last_obs, end_seen, rate_claimed,
                   rate_amended, disc_at, runs, failed, whisper_model>>
    /\ UNCHANGED <<http_vars, as_vars, loop_vars, rs_vars, relay_vars>>

\* Lines 246-248: recognition, diarization, assignment.
RunPipeline(load_ok, engine) ==
    /\ pc = "finalizing"
    /\ LET g == get_whisper(whisper_model, load_ok)
           stt == run_whisper(wav_bytes, g.ready, engine)
       IN  /\ whisper_model' = g.model
           /\ IF stt.exc # "none"
              THEN /\ pc' = "send_error"
                   /\ failed' = TRUE
                   /\ final' = final
              ELSE /\ pc' = "send_final"
                   /\ failed' = failed
                   /\ final' = assign_speakers(stt.out, run_diarization(wav_bytes))
    /\ runs' = runs + 1
    /\ UNCHANGED <<buffer, current_sr, wav_bytes, client, client_state, sent,
                   attempts, audio_in, last_obs, end_seen, rate_claimed,
                   rate_amended, disc_at>>
    /\ UNCHANGED <<http_vars, as_vars, loop_vars, rs_vars, relay_vars>>

\* What ws.send_text does when the peer is gone: it raises
\* WebSocketDisconnect, raises another exception, or the frame is dropped.
SendFailures == {"WebSocketDisconnect", "Exception", "dropped"}

\* SendFinal without the break of line 250: the loop goes on receiving.
M_SendFinal_NoBreak(how) ==
    /\ pc = "send_final"
    /\ attempts' = Append(attempts, "final")
    /\ IF client = "connected"
       THEN /\ sent' = Append(sent, FinalMsg(final))
            /\ pc' = "receive"
       ELSE /\ sent' = sent
            /\ pc' = IF how = "Exception" THEN "send_error" ELSE "close"
    /\ UNCHANGED <<buffer, current_sr, wav_bytes, final, client, client_state,
                   audio_in, last_obs, end_seen, rate_claimed, rate_amended,
                   disc_at, runs, failed, whisper_model>>
    /\ UNCHANGED <<http_vars, as_vars, loop_vars, rs_vars, relay_vars>>

\* Line 249, then break; or the except clause the failed send leads to.
SendFinal(how) ==
    /\ pc = "send_final"
    /\ attempts' = Append(attempts, "final")
    /\ IF client = "connected"
       THEN /\ sent' = Append(sent, FinalMsg(final))
            /\ pc' = "close"
       ELSE /\ sent' = sent
            /\ pc' = IF how = "Exception" THEN "send_error" ELSE "close"
    /\ UNCHANGED <<buffer, current_sr, wav_bytes, final, client, client_state,
                   audio_in, last_obs, end_seen, rate_claimed, rate_amended,
                   disc_at, runs, failed, whisper_model>>
    /\ UNCHANGED <<http_vars, as_vars, loop_vars, rs_vars, relay_vars>>

\* SendError with the except clause passing, as for WebSocketDisconnect.
M_SendError_Silent ==
    /\ pc = "send_error"
    /\ pc' = "close"
    /\ UNCHANGED <<buffer, current_sr, wav_bytes, final, client, client_state,
                   sent, attempts, audio_in, last_obs, end_seen, rate_claimed,
                   rate_amended, disc_at, runs, failed, whisper_model>>
    /\ UNCHANGED <<http_vars, as_vars, loop_vars, rs_vars, relay_vars>>

\* Lines 256-260: the error message is sent, a failure of the send is dropped.
SendError ==
    /\ pc = "send_error"
    /\ attempts' = Append(attempts, "error")
    /\ sent' = IF client = "connected" THEN Append(sent, ErrorMsg("exception"))
               ELSE sent
    /\ pc' = "close"
    /\ UNCHANGED <<buffer, current_sr, wav_bytes, final, client, client_state,
                   audio_in, last_obs, end_seen, rate_claimed, rate_amended,
                   disc_at, runs, failed, whisper_model>>
    /\ UNCHANGED <<http_vars, as_vars, loop_vars, rs_vars, relay_vars>>

\* Lines 261-265: ws.close(), a failure of which is dropped.
Close ==
    /\ pc = "close"
    /\ pc' = "closed"
    /\ UNCHANGED <<buffer, current_sr, wav_bytes, final, client, client_state,
                   sent, attempts, audio_in, last_obs, end_seen, rate_claimed,
                   rate_amended, disc_at, runs, failed, whisper_model>>
    /\ UNCHANGED <<http_vars, as_vars, loop_vars, rs_vars, relay_vars>>

\* An upload: empty, or a file.
EmptyUpload == [empty |-> TRUE, file |-> NoWav]
FileUpload(f) == [empty |-> FALSE, file |-> f]
NoUpload == [empty |-> TRUE, file |-> NoWav]
NoEnv == [ready |-> FALSE, engine |-> [raises |-> FALSE, segs |-> <<>>]]
NoResponse == [status |-> 0, segments |-> <<>>, detail |-> ""]

HttpIdle ==
    /\ http_pc = "idle"
    /\ content = NoUpload
    /\ http_env = NoEnv
    /\ response = NoResponse
    /\ responses = 0

AsIdle ==
    /\ as_pc = "idle"
    /\ as_stt = <<>>
    /\ as_spk = <<>>
    /\ as_out = <<>>
    /\ as_in = <<>>

\* ------------------------------------------ the tasks of one event loop --

WsTasks == {"ws1", "ws2"}
HttpTasks == {"http1"}
Tasks == WsTasks \cup HttpTasks

\* The frames the sessions of the loop receive.
LoopMessages == {BytesMsg(<<1>>), TextMsg(T_cfg(N(8000))), TextMsg(T_hello), TextMsg(T_end)}
\* The files posted to /transcribe on the loop.
LoopFile == Wav(1, 1, 2, 16000, <<1, 2>>)
LoopUploads == {EmptyUpload, FileUpload(LoopFile)}
\* What the engine does on the loop.
LoopEngines == {e \in EngineOutcomes : e.segs = <<RawSeg(0, 1, " hi")>>}

LoopInit ==
    /\ l_pc = [t \in Tasks |-> IF t \in WsTasks THEN "receive" ELSE "idle"]
    /\ l_buffer = [t \in WsTasks |-> <<>>]
    /\ l_sr = [t \in WsTasks |-> DefaultRate]
    /\ l_ready = [t \in Tasks |-> FALSE]
    /\ holder = "none"
    /\ constructions = 0
    /\ built = 0

NoResult == [exc |-> "none", out |-> <<>>, called |-> FALSE, interp |-> FALSE,
             fed |-> 0]

RsIdle ==
    /\ rs_pc = "idle"
    /\ rs_n = 0
    /\ rs_sr = 0
    /\ rs_ready = FALSE
    /\ rs_res = NoResult

RelayInit ==
    /\ s_pc = "start"
    /\ s_rate = 0
    /\ wire = <<>>
    /\ r_pc = "connect"
    /\ files = <<>>
    /\ captured = <<>>
    /\ header_first = TRUE

Init ==
    /\ WsInit
    /\ whisper_model \in {"None", "loaded"}
    /\ HttpIdle
    /\ AsIdle
    /\ LoopInit
    /\ RsIdle
    /\ RelayInit

Next ==
    \/ \E msg \in Messages : Receive(msg)
    \/ Disconnect
    \/ ReceiveDisconnect
    \/ ReceiveRaises
    \/ \E load_ok \in BOOLEAN, engine \in EngineOutcomes : RunPipeline(load_ok, engine)
    \/ \E how \in SendFailures : SendFinal(how)
    \/ SendError
    \/ Close

Spec == Init /\ [][Next]_vars

\* ------------------------------------------- properties of the session --

\* A step in which the receive loop consumed a data message; last_obs' then
\* describes that message.
ReceivedStep == pc = "receive" /\ client = "connected" /\ client_state = "CONNECTED"
                /\ client' = client

Terminal(m) == m.type \in {"final", "error"}

\* C1: a session that received an end-of-stream signal (the token end, or a
\* JSON payload whose type field is "end") and whose peer stayed connected
\* through finalization has, once closed, emitted exactly one message, a
\* terminal one.
C1_OneTerminalPerEndedSession ==
    (pc = "closed" /\ end_seen /\ disc_at # "FINALIZING")
        => (Len(sent) = 1 /\ Terminal(sent[1]))

\* C2: once an end-of-stream signal (the token end, or a JSON payload whose
\* type field is "end", in any layout and with any further fields) has been
\* received, the session has left STREAMING.
C2_EndSignalLeavesStreaming == end_seen => pc # "receive"

\* C3 as claimed: the rate the buffer is wrapped at is the sampleRate of the
\* most recent config message carrying a positive integer sampleRate, or
\* 16000.
C3_RateOfLastPositiveIntegerConfig ==
    wav_bytes.riff => wav_bytes.framerate = rate_claimed

\* C3 as amended: the rate the buffer is wrapped at is int(sampleRate) of the
\* most recent config message whose sampleRate int() converts to a positive
\* integer (an integer, a decimal string, a float truncated toward zero), or
\* 16000; a config whose rate converts to zero or a negative number, or does
\* not convert, leaves the rate as it was.
C3_RateOfLastConvertibleConfig ==
    /\ current_sr = rate_amended
    /\ wav_bytes.riff => wav_bytes.framerate = rate_amended

C3_Witness ==
    /\ wav_bytes.riff
    /\ wav_bytes.framerate = 8000
    /\ pc = "send_final"

\* C4: a text frame that mentions sampleRate and is not valid JSON, or is
\* JSON that is no config object with a convertible rate, changes neither the
\* rate nor the buffer, emits nothing and leaves the session receiving.
C4_MalformedConfigIgnored ==
    [][(ReceivedStep /\ last_obs'.badrate)
         => /\ current_sr' = current_sr
            /\ buffer' = buffer
            /\ sent' = sent
            /\ attempts' = attempts
            /\ pc' = "receive"
            /\ client_state' = "CONNECTED"]_vars

C4_Witness ==
    /\ last_obs.badrate
    /\ pc = "receive"
    /\ client = "connected"
    /\ current_sr = 8000
    /\ buffer # <<>>

\* C5: the buffer is the concatenation, in arrival order, of the payloads of
\* the binary frames received, and the WAV handed to recognition wraps
\* exactly that buffer as mono 16-bit PCM, every whole sample of it decoded.
C5_BufferIsAudioReceived ==
    /\ buffer = audio_in
    /\ wav_bytes.riff =>
         /\ wav_bytes.data = audio_in
         /\ wav_bytes_to_float_np(wav_bytes).exc = "none"
         /\ wav_bytes_to_float_np(wav_bytes).audio = FromBuffer(audio_in)

C5_Witness ==
    /\ wav_bytes.riff
    /\ Len(wav_bytes.data) >= 3
    /\ wav_bytes.data[1] # wav_bytes.data[2]
    /\ pc = "send_final"

\* C6: a message that is neither binary audio, nor a config message, nor an
\* end-of-stream signal changes neither the buffer nor the rate, emits
\* nothing and leaves the session receiving.
C6_OtherMessagesIgnored ==
    [][(ReceivedStep /\ last_obs'.kind # "bytes" /\ ~last_obs'.config /\ ~last_obs'.end)
         => /\ buffer' = buffer
            /\ current_sr' = current_sr
            /\ sent' = sent
            /\ attempts' = attempts
            /\ pc' = "receive"]_vars

\* C7, its STREAMING case: once the peer has gone away while the session was
\* in STREAMING, the server does not run the pipeline and passes no message
\* to send_text.  (In FINALIZING the handler is inside lines 245-249 and
\* sends the result it computed.)
C7_NoSendAfterDisconnect ==
    [][(disc_at = "STREAMING") => (attempts' = attempts /\ runs' = runs)]_vars

\* C8: when recognition fails during finalization the pipeline has run once
\* and is not run again, no "final" message is sent or attempted, and the
\* session goes on to send one "error" message and to close; the peer, if it
\* stayed, has received exactly that message.
C8_FailureYieldsOneError ==
    failed =>
        /\ runs = 1
        /\ pc \in {"send_error", "close", "closed"}
        /\ pc = "send_error" => attempts = <<>>
        /\ pc \in {"close", "closed"} => attempts = <<"error">>
        /\ (pc \in {"close", "closed"} /\ disc_at \in {"none", "LATE"})
             => sent = <<ErrorMsg("exception")>>
        /\ \A i \in 1..Len(sent) : sent[i].type # "final"

C8_Witness ==
    /\ failed
    /\ pc = "closed"
    /\ sent = <<ErrorMsg("exception")>>

\* ------------------------------------------------------ POST /transcribe --

\* An upload: empty, or a file, which is a WAV or (riff FALSE) something else.
\* The WAVs are PCM (format tag 1), mono or stereo, 8 or 16 bits, and 32-bit
\* IEEE float (format tag 3).
Uploads ==
    {EmptyUpload, FileUpload(NoWav)}
    \cup { FileUpload(Wav(1, ch, width, rate, data)) :
             ch \in {1, 2}, width \in {1, 2},
             rate \in {8000, 16000, 44100}, data \in BinaryFrames }
    \cup { FileUpload(Wav(3, 1, 4, rate, data)) :
             rate \in {16000, 44100}, data \in BinaryFrames }

\* The except clauses of transcribe: HTTPException is re-raised, any other
\* exception becomes a 500.
StatusOf(exc) == CASE exc = "http400" -> 400 [] exc = "error" -> 500 [] OTHER -> 200

Response(status, segments, detail) ==
    [status |-> status, segments |-> segments, detail |-> detail]

\* The body of transcribe (lines 208-219).
transcribe(upload, model_ready, engine) ==
    IF upload.empty THEN Response(400, <<>>, "Empty audio")
    ELSE LET stt == run_whisper(upload.file, model_ready, engine) IN
         IF stt.exc = "none"
         THEN Response(200, assign_speakers(stt.out, run_diarization(upload.file)), "")
         ELSE Response(StatusOf(stt.exc), <<>>,
                       IF stt.exc = "http400" THEN "Expect mono 16-bit WAV"
                       ELSE "exception")

\* A client posts a file.
Upload(c) ==
    /\ http_pc = "idle"
    /\ http_pc' = "received"
    /\ content' = c
    /\ responses' = 0
    /\ UNCHANGED <<http_env, response, whisper_model, ws_vars, as_vars, loop_vars, rs_vars, relay_vars>>

\* The handler runs, without suspension, from the read to the response.
Transcribe(load_ok, engine) ==
    /\ http_pc = "received"
    /\ LET g == IF content.empty THEN [ready |-> whisper_model = "loaded",
                                        model |-> whisper_model]
                ELSE get_whisper(whisper_model, load_ok)
       IN  /\ whisper_model' = g.model
           /\ http_env' = [ready |-> g.ready, engine |-> engine]
           /\ response' = transcribe(content, g.ready, engine)
    /\ responses' = responses + 1
    /\ http_pc' = "responded"
    /\ UNCHANGED <<content, ws_vars, as_vars, loop_vars, rs_vars, relay_vars>>

\* The request is over; the process, and the model it loaded, live on.
NextRequest ==
    /\ http_pc = "responded"
    /\ http_pc' = "idle"
    /\ content' = NoUpload
    /\ http_env' = NoEnv
    /\ response' = NoResponse
    /\ responses' = 0
    /\ UNCHANGED <<whisper_model, ws_vars, as_vars, loop_vars, rs_vars, relay_vars>>

NextHTTP ==
    \/ \E c \in Uploads : Upload(c)
    \/ \E load_ok \in BOOLEAN, engine \in EngineOutcomes : Transcribe(load_ok, engine)
    \/ NextRequest

SpecHTTP == Init /\ [][NextHTTP]_vars

\* C9, with the recognition model available: a request gets one response;
\* 400 when the upload is empty; 400 when the file is a WAV that is not mono
\* 16-bit; 200 only when recognition, diarization and assignment completed;
\* 500 with a detail otherwise.
C9_StatusByOutcome ==
    (http_pc = "responded" /\ http_env.ready) =>
        /\ responses = 1
        /\ response.status \in {200, 400, 500}
        /\ content.empty => response.status = 400
        /\ (~content.empty /\ content.file.riff
              /\ (content.file.nchannels # 1 \/ content.file.sampwidth # 2))
             => response.status = 400
        /\ response.status = 200 =>
             (~content.empty /\ WaveOpens(content.file)
                /\ ~(http_env.engine.raises
                       /\ run_whisper(content.file, TRUE, http_env.engine).called))
        /\ response.status = 500 => response.detail # ""

\* ------------------------------------------------- assign_speakers calls --

SeqsUpTo(elems, n) == UNION { [1..k -> elems] : k \in 0..n }

SttSegs == { [start |-> a, end |-> b, text |-> "hi"] : a \in 0..MaxTime, b \in 0..MaxTime }
SttSegments == { s \in SttSegs : s.start < s.end }
SpkSegs ==
    { [start |-> a, end |-> b, speaker |-> l] :
        a \in 0..MaxTime, b \in 0..MaxTime, l \in {"A", "B"} }
SpkSegments == { d \in SpkSegs : d.start < d.end }

\* final = assign_speakers(stt, spk): the loops write s["speaker"] into the
\* records of the caller's list (lines 134, 145), and that list is returned
\* (lines 135, 146); spk is only read.
AssignCall(stt, spk) ==
    /\ as_pc = "idle"
    /\ as_in' = stt
    /\ as_stt' = assign_speakers(stt, spk)
    /\ as_spk' = spk
    /\ as_out' = as_stt'
    /\ as_pc' = "done"
    /\ UNCHANGED <<ws_vars, whisper_model, http_vars, loop_vars, rs_vars, relay_vars>>

\* The call is over and its lists are dropped.
AssignReturn ==
    /\ as_pc = "done"
    /\ as_pc' = "idle"
    /\ as_stt' = <<>>
    /\ as_spk' = <<>>
    /\ as_out' = <<>>
    /\ as_in' = <<>>
    /\ UNCHANGED <<ws_vars, whisper_model, http_vars, loop_vars, rs_vars, relay_vars>>

NextAssign ==
    \/ \E stt \in SeqsUpTo(SttSegments, MaxStt), spk \in SeqsUpTo(SpkSegments, MaxSpk) :
         AssignCall(stt, spk)
    \/ AssignReturn

SpecAssign == Init /\ [][NextAssign]_vars

\* max(0, min(ends) - max(starts))
Ov(s, d) == Max(0, Min(s.end, d.end) - Max(s.start, d.start))

\* The label the rule gives a segment: the default when nothing overlaps it,
\* else the speaker of the first diarization segment of greatest overlap.
ExpectedLabel(s, spk) ==
    IF \A j \in 1..Len(spk) : Ov(s, spk[j]) = 0 THEN "SPEAKER_00"
    ELSE LET j == CHOOSE j \in 1..Len(spk) :
                     /\ \A k \in 1..Len(spk) : Ov(s, spk[k]) <= Ov(s, spk[j])
                     /\ \A k \in 1..(j - 1) : Ov(s, spk[k]) < Ov(s, spk[j])
         IN  spk[j].speaker

\* C10: assign_speakers returns the recognition segments in the same order
\* and number, each with the default label SPEAKER_00 when no diarization
\* segment overlaps it (or there is none), and otherwise with the speaker of
\* the diarization segment of greatest overlap, the first of them on a tie.
C10_AssignByGreatestOverlap ==
    as_pc = "done" =>
        /\ Len(as_out) = Len(as_in)
        /\ \A i \in 1..Len(as_in) :
             /\ as_out[i].start = as_in[i].start
             /\ as_out[i].end = as_in[i].end
             /\ as_out[i].text = as_in[i].text
             /\ as_out[i].speaker = ExpectedLabel(as_in[i], as_spk)

\* A tie between two speakers, resolved for the first.
C10_Witness ==
    /\ as_pc = "done"
    /\ Len(as_in) = 2
    /\ Len(as_spk) = 2
    /\ as_spk[1].speaker # as_spk[2].speaker
    /\ Ov(as_in[1], as_spk[1]) = Ov(as_in[1], as_spk[2])
    /\ Ov(as_in[1], as_spk[1]) > 0
    /\ as_out[1].speaker = as_spk[1].speaker
    /\ as_out[2].speaker = "SPEAKER_00"

\* C11: after a call of assign_speakers the recognition list and the
\* diarization list the caller passed are as they were before the call: no
\* record of either gained or lost a field.
C11_InputsUnchanged ==
    as_pc = "done" =>
        /\ Len(as_stt) = Len(as_in)
        /\ \A i \in 1..Len(as_in) : DOMAIN as_stt[i] = DOMAIN as_in[i]
        /\ \A j \in 1..Len(as_spk) : DOMAIN as_spk[j] = {"start", "end", "speaker"}

\* ------------------------------------- concurrent tasks on the event loop --

\* A task runs from one await to the next without interruption.  The calls
\* of lines 245-248 and 212-214 are plain calls, not awaited and not handed
\* to an executor: while one of them runs, its task holds the loop's thread.

\* A session resumes from await ws.receive() with a data message and runs to
\* the next await, or into the pipeline call.
LoopReceive(t, msg) ==
    /\ holder = "none"
    /\ l_pc[t] = "receive"
    /\ Len(l_buffer[t]) + Len(msg.bytes) <= MaxBuf
    /\ l_buffer' = [l_buffer EXCEPT ![t] = BufferAfter(@, msg)]
    /\ l_sr' = [l_sr EXCEPT ![t] = RateAfter(@, msg)]
    /\ IF Branch(msg) = "end"
       THEN /\ l_pc' = [l_pc EXCEPT ![t] = "finalizing"]
            /\ holder' = t
       ELSE UNCHANGED <<l_pc, holder>>
    /\ UNCHANGED <<l_ready, constructions, built, whisper_model>>
    /\ UNCHANGED <<ws_vars, http_vars, as_vars, rs_vars, relay_vars>>

\* The pipeline call of a session returns or raises; the task goes on to its
\* next await, the send.
LoopPipeline(t, load_ok, engine) ==
    /\ holder = t
    /\ l_pc[t] = "finalizing"
    /\ LET g == get_whisper(whisper_model, load_ok)
           stt == run_whisper(pcm16_to_wav_bytes(l_buffer[t], l_sr[t]), g.ready, engine)
       IN  /\ whisper_model' = g.model
           /\ l_ready' = [l_ready EXCEPT ![t] = g.ready]
           /\ constructions' = constructions + (IF g.constructs THEN 1 ELSE 0)
           /\ built' = built + (IF g.constructs /\ g.ready THEN 1 ELSE 0)
           /\ l_pc' = [l_pc EXCEPT ![t] = IF stt.exc = "none" THEN "send_final"
                                          ELSE "send_error"]
    /\ holder' = "none"
    /\ UNCHANGED <<l_buffer, l_sr>>
    /\ UNCHANGED <<ws_vars, http_vars, as_vars, rs_vars, relay_vars>>

\* await ws.send_text(...) of the final or the error message.
LoopSend(t) ==
    /\ holder = "none"
    /\ l_pc[t] \in {"send_final", "send_error"}
    /\ l_pc' = [l_pc EXCEPT ![t] = "close"]
    /\ UNCHANGED <<l_buffer, l_sr, l_ready, holder, constructions, built, whisper_model>>
    /\ UNCHANGED <<ws_vars, http_vars, as_vars, rs_vars, relay_vars>>

\* await ws.close()
LoopClose(t) ==
    /\ holder = "none"
    /\ l_pc[t] = "close"
    /\ l_pc' = [l_pc EXCEPT ![t] = "closed"]
    /\ UNCHANGED <<l_buffer, l_sr, l_ready, holder, constructions, built, whisper_model>>
    /\ UNCHANGED <<ws_vars, http_vars, as_vars, rs_vars, relay_vars>>

\* A request resumes from await audio.read() with the upload: an empty one
\* is answered at once, a file takes the task into the pipeline call.
LoopUpload(t, c) ==
    /\ holder = "none"
    /\ l_pc[t] = "idle"
    /\ IF c.empty
       THEN /\ l_pc' = [l_pc EXCEPT ![t] = "responded"]
            /\ holder' = holder
       ELSE /\ l_pc' = [l_pc EXCEPT ![t] = "finalizing"]
            /\ holder' = t
    /\ UNCHANGED <<l_buffer, l_sr, l_ready, constructions, built, whisper_model>>
    /\ UNCHANGED <<ws_vars, http_vars, as_vars, rs_vars, relay_vars>>

\* The pipeline call of the request returns or raises, and the response is
\* returned.
LoopTranscribe(t, load_ok, engine) ==
    /\ holder = t
    /\ l_pc[t] = "finalizing"
    /\ LET g == get_whisper(whisper_model, load_ok) IN
       /\ whisper_model' = g.model
       /\ l_ready' = [l_ready EXCEPT ![t] = g.ready]
       /\ constructions' = constructions + (IF g.constructs THEN 1 ELSE 0)
       /\ built' = built + (IF g.constructs /\ g.ready THEN 1 ELSE 0)
    /\ l_pc' = [l_pc EXCEPT ![t] = "responded"]
    /\ holder' = "none"
    /\ UNCHANGED <<l_buffer, l_sr>>
    /\ UNCHANGED <<ws_vars, http_vars, as_vars, rs_vars, relay_vars>>

NextLoop ==
    \/ \E t \in WsTasks, msg \in LoopMessages : LoopReceive(t, msg)
    \/ \E t \in WsTasks, load_ok \in BOOLEAN, engine \in LoopEngines :
         LoopPipeline(t, load_ok, engine)
    \/ \E t \in WsTasks : LoopSend(t)
    \/ \E t \in WsTasks : LoopClose(t)
    \/ \E t \in HttpTasks, c \in LoopUploads : LoopUpload(t, c)
    \/ \E t \in HttpTasks, load_ok \in BOOLEAN, engine \in LoopEngines :
         LoopTranscribe(t, load_ok, engine)

SpecLoop == Init /\ [][NextLoop]_vars

\* C12: while one task is in FINALIZING with recognition running, any other
\* session that is in STREAMING can take its next step: receive and buffer a
\* frame, or start its own finalization.
C12_RecognitionDoesNotStall ==
    \A s \in Tasks : \A t \in WsTasks \ {s} :
        (l_pc[s] = "finalizing" /\ l_pc[t] = "receive")
            => ENABLED (\E msg \in LoopMessages : LoopReceive(t, msg))

\* C13 as claimed: WhisperModel(...) is called at most once in the process,
\* by the first call of get_whisper.
C13_ConstructedOnceByFirstCall == constructions <= 1

\* C13 as amended: at most one call of WhisperModel(...) returns a model in
\* the process; once the model is held, no call of get_whisper constructs
\* another and every call returns the one held; a call whose construction
\* raises leaves the global unset, and the next call constructs again.
C13_BuiltAtMostOnce ==
    /\ [](built <= 1)
    /\ [](built = 1 => whisper_model = "loaded")
    /\ [][whisper_model = "loaded"
            => /\ whisper_model' = "loaded"
               /\ constructions' = constructions
               /\ \A t \in Tasks : l_ready'[t] # l_ready[t] => l_ready'[t]]_vars
    /\ [][(whisper_model = "None" /\ constructions' # constructions)
            => (constructions' = constructions + 1 /\ built' <= 1)]_vars

\* Three tasks called get_whisper: the first construction raised, the second
\* built the model, the third got the model held.
C13_Witness ==
    /\ constructions = 2
    /\ built = 1
    /\ l_ready["ws2"]
    /\ l_ready["http1"]
    /\ ~l_ready["ws1"]
    /\ l_pc["ws1"] = "closed"

\* ---------------------------------------------------- run_whisper calls --

\* The rates a WAV declares.
SourceRates == {8000, 11025, 16000, 22050, 32000, 44100, 48000}

\* A mono 16-bit WAV of n samples.
Pcm(n) == [i \in 1..(2 * n) |-> 1]

\* stt = run_whisper(wav_bytes) on a mono 16-bit WAV of n samples at rate sr.
RunWhisper(n, sr, load_ok, engine) ==
    /\ rs_pc = "idle"
    /\ LET g == get_whisper(whisper_model, load_ok) IN
       /\ whisper_model' = g.model
       /\ rs_ready' = g.ready
       /\ rs_res' = run_whisper(pcm16_to_wav_bytes(Pcm(n), sr), g.ready, engine)
    /\ rs_n' = n
    /\ rs_sr' = sr
    /\ rs_pc' = "done"
    /\ UNCHANGED <<ws_vars, http_vars, as_vars, loop_vars, relay_vars>>

\* The call is over.
RunWhisperReturn ==
    /\ rs_pc = "done"
    /\ rs_pc' = "idle"
    /\ rs_n' = 0
    /\ rs_sr' = 0
    /\ rs_ready' = FALSE
    /\ rs_res' = NoResult
    /\ UNCHANGED <<whisper_model, ws_vars, http_vars, as_vars, loop_vars, relay_vars>>

NextWhisper ==
    \/ \E n \in 0..MaxSamples, sr \in SourceRates, load_ok \in BOOLEAN,
          engine \in EngineOutcomes : RunWhisper(n, sr, load_ok, engine)
    \/ RunWhisperReturn

SpecWhisper == Init /\ [][NextWhisper]_vars

\* round(a / b) for a >= 0, b > 0, a tie going to the even neighbour.
RoundDiv(a, b) ==
    LET q == a \div b
        r == a % b
    IN  IF 2 * r < b THEN q
        ELSE IF 2 * r > b THEN q + 1
        ELSE IF q % 2 = 0 THEN q ELSE q + 1

\* C14: when the WAV's rate is not 16000, run_whisper resamples n samples to
\* round(n / rate * 16000) samples and gives the engine that many; when
\* that target is 0 it returns the empty list and invokes neither the
\* interpolator nor the engine.
C14_ResampledLengthIsRounded ==
    (rs_pc = "done" /\ rs_ready /\ rs_sr # TARGET_SAMPLE_RATE) =>
        LET target == RoundDiv(rs_n * TARGET_SAMPLE_RATE, rs_sr) IN
        /\ target = 0 => (~rs_res.interp /\ ~rs_res.called /\ rs_res.out = <<>>)
        /\ target > 0 => (rs_res.interp /\ rs_res.called /\ rs_res.fed = target)

\* ------------------------------------------- a session to its very end --

\* The steps of a session whose frames are those of LoopMessages.
NextLive ==
    \/ \E msg \in LoopMessages : Receive(msg)
    \/ Disconnect
    \/ ReceiveDisconnect
    \/ ReceiveRaises
    \/ \E load_ok \in BOOLEAN, engine \in LoopEngines : RunPipeline(load_ok, engine)
    \/ \E how \in SendFailures : SendFinal(how)
    \/ SendError
    \/ Close

\* The handler's own steps are taken when they can be: the event loop resumes
\* a task whose await has completed, and the pipeline calls return.  Nothing
\* is assumed of the peer.
SpecLive ==
    /\ Init
    /\ [][NextLive]_vars
    /\ WF_vars(ReceiveDisconnect)
    /\ WF_vars(ReceiveRaises)
    /\ WF_vars(\E load_ok \in BOOLEAN, engine \in LoopEngines : RunPipeline(load_ok, engine))
    /\ WF_vars(\E how \in SendFailures : SendFinal(how))
    /\ WF_vars(SendError)
    /\ WF_vars(Close)

\* C15: once the peer has received a terminal message the session takes no
\* further frame, changes neither buffer nor rate, passes nothing more to
\* send_text and only goes on to close; a closed session changes nothing at
\* all; and a session that has left the receive loop, or whose peer has gone
\* away, is closed in the end, whether it ended by a final result, by an
\* error or by a disconnect.
C15_ClosedIsTerminal ==
    /\ [][sent # <<>>
            => /\ sent' = sent
               /\ attempts' = attempts
               /\ buffer' = buffer
               /\ current_sr' = current_sr
               /\ audio_in' = audio_in
               /\ last_obs' = last_obs
               /\ runs' = runs
               /\ pc \in {"close", "closed"}
               /\ pc' \in {"close", "closed"}]_vars
    /\ [][pc = "closed" => UNCHANGED ws_vars]_vars
    /\ [](Len(sent) <= 1)
    /\ (pc # "receive" \/ client = "gone") ~> (pc = "closed")

\* A session that buffered audio, was told to end, sent its final result to
\* the peer and closed.
C15_Witness ==
    /\ pc = "closed"
    /\ buffer # <<>>
    /\ Len(sent) = 1
    /\ sent[1].type = "final"
    /\ client = "connected"

\* -------------------------------------------------- the TCP audio relay --

GAIN == 10

\* The rates of capture devices.
DeviceRates == {44100, 48000}

\* RATE.to_bytes(4, 'little')
ToBytes4(n) ==
    <<n % 256, (n \div 256) % 256, (n \div 65536) % 256, (n \div 16777216) % 256>>

\* A signed 16-bit sample as its two bytes, low byte first.
ToBytes2(v) == LET u == v % 65536 IN <<u % 256, u \div 256>>

\* stream.read(CHUNK): CHUNK frames of 16-bit mono audio.
RelaySamples == {513, 16384, -16384}
Chunk(v) == [i \in 1..(2 * CHUNK) |-> ToBytes2(v)[2 - (i % 2)]]
RelayChunks == {Chunk(v) : v \in RelaySamples}

\* np.clip(audio_data.astype(np.int32) * GAIN, -32768, 32767).astype(np.int16)
Amplify(samples) ==
    [i \in 1..Len(samples) |-> Max(-32768, Min(32767, samples[i] * GAIN))]

\* sender.py, lines 14-39: the device is opened and the server listens.
SenderStart(rate) ==
    /\ s_pc = "start"
    /\ s_rate' = rate
    /\ s_pc' = "accept"
    /\ UNCHANGED <<wire, r_pc, files, captured, header_first>>
    /\ UNCHANGED <<ws_vars, whisper_model, http_vars, as_vars, loop_vars, rs_vars>>

\* sender.py line 44 and receiver.py line 24: the connection is made.
Accept ==
    /\ s_pc = "accept"
    /\ r_pc = "connect"
    /\ s_pc' = "send_rate"
    /\ r_pc' = "loop"
    /\ UNCHANGED <<s_rate, wire, files, captured, header_first>>
    /\ UNCHANGED <<ws_vars, whisper_model, http_vars, as_vars, loop_vars, rs_vars>>

\* sender.py lines 48-49: conn.sendall(rate_bytes)
SendRate ==
    /\ s_pc = "send_rate"
    /\ wire' = wire \o ToBytes4(s_rate)
    /\ header_first' = (header_first /\ captured = <<>>)
    /\ s_pc' = "stream"
    /\ UNCHANGED <<s_rate, r_pc, files, captured>>
    /\ UNCHANGED <<ws_vars, whisper_model, http_vars, as_vars, loop_vars, rs_vars>>

\* sender.py lines 53-54: a chunk is read from the device and sent; the send
\* raises when the receiver has gone.
SendChunk(data) ==
    /\ s_pc = "stream"
    /\ IF r_pc = "loop"
       THEN /\ Len(captured) < 2 * CHUNK * MaxChunks
            /\ wire' = wire \o data
            /\ captured' = captured \o data
            /\ s_pc' = s_pc
       ELSE /\ s_pc' = "close"
            /\ UNCHANGED <<wire, captured>>
    /\ UNCHANGED <<s_rate, r_pc, files, header_first>>
    /\ UNCHANGED <<ws_vars, whisper_model, http_vars, as_vars, loop_vars, rs_vars>>

\* sender.py lines 60-62: conn.close(), and back to accept.
SenderClose ==
    /\ s_pc = "close"
    /\ s_pc' = "accept"
    /\ UNCHANGED <<s_rate, wire, r_pc, files, captured, header_first>>
    /\ UNCHANGED <<ws_vars, whisper_model, http_vars, as_vars, loop_vars, rs_vars>>

\* sender.py lines 64-73: KeyboardInterrupt; the process ends and its sockets
\* are closed.
SenderInterrupt ==
    /\ s_pc \in {"accept", "send_rate", "stream"}
    /\ s_pc' = "down"
    /\ UNCHANGED <<s_rate, wire, r_pc, files, captured, header_first>>
    /\ UNCHANGED <<ws_vars, whisper_model, http_vars, as_vars, loop_vars, rs_vars>>

\* receiver.py lines 36-57: one iteration of the loop in which recv returns
\* k bytes.  newminute: the minute changed (always so in the first
\* iteration), and a new file is opened.  np.frombuffer raises ValueError on
\* an odd number of bytes; the exception is not caught, the finally block
\* closes the file.
RecvData(k, newminute) ==
    /\ r_pc = "loop"
    /\ k \in 1..Min(Len(wire), 2 * CHUNK)
    /\ newminute \/ files # <<>>
    /\ LET data == SubSeq(wire, 1, k)
           opened == IF newminute THEN Append(files, <<>>) ELSE files
       IN  /\ wire' = SubSeq(wire, k + 1, Len(wire))
           /\ IF k % 2 = 0
              THEN /\ files' = [opened EXCEPT ![Len(opened)] =
                                  @ \o Amplify(FromBuffer(data))]
                   /\ r_pc' = "loop"
              ELSE /\ files' = opened
                   /\ r_pc' = "finished"
    /\ UNCHANGED <<s_pc, s_rate, captured, header_first>>
    /\ UNCHANGED <<ws_vars, whisper_model, http_vars, as_vars, loop_vars, rs_vars>>

\* receiver.py lines 52-60: the sender closed the connection, recv returns
\* b'' and the loop ends.
RecvEnd(newminute) ==
    /\ r_pc = "loop"
    /\ wire = <<>>
    /\ s_pc = "down"
    /\ newminute \/ files # <<>>
    /\ files' = IF newminute THEN Append(files, <<>>) ELSE files
    /\ r_pc' = "finished"
    /\ UNCHANGED <<s_pc, s_rate, wire, captured, header_first>>
    /\ UNCHANGED <<ws_vars, whisper_model, http_vars, as_vars, loop_vars, rs_vars>>

\* receiver.py lines 62-71: KeyboardInterrupt.
ReceiverInterrupt ==
    /\ r_pc = "loop"
    /\ r_pc' = "finished"
    /\ UNCHANGED <<s_pc, s_rate, wire, files, captured, header_first>>
    /\ UNCHANGED <<ws_vars, whisper_model, http_vars, as_vars, loop_vars, rs_vars>>

NextRelay ==
    \/ \E rate \in DeviceRates : SenderStart(rate)
    \/ Accept
    \/ SendRate
    \/ \E data \in RelayChunks : SendChunk(data)
    \/ SenderClose
    \/ SenderInterrupt
    \/ \E k \in 1..(2 * CHUNK), newminute \in BOOLEAN : RecvData(k, newminute)
    \/ \E newminute \in BOOLEAN : RecvEnd(newminute)
    \/ ReceiverInterrupt

SpecRelay == Init /\ [][NextRelay]_vars

\* The samples of all files, in the order written.
RECURSIVE Written(_)
Written(fs) == IF fs = <<>> THEN <<>> ELSE Head(fs) \o Written(Tail(fs))

IsPrefix(a, b) == Len(a) <= Len(b) /\ a = SubSeq(b, 1, Len(a))

\* C16: the rate goes out before any chunk, and the samples written to the
\* WAV files are, in order, the samples of the chunks the sender captured,
\* each multiplied by the gain and clipped: no byte of the rate header is
\* among them and no sample is put together from the bytes of two.
C16_FilesHoldCapturedAudio ==
    /\ header_first
    /\ IsPrefix(Written(files), Amplify(FromBuffer(captured)))

=============================================================================
